---- MODULE Spec2Model ----
(***************************************************************************)
(* Authentication back end of my-enterprise-app: the register and login    *)
(* handlers of UserController, the error translation of the auth router,   *)
(* the token issue/verify pair of AuthMiddleware, and the user collection  *)
(* they share.  Each request is handled by an async function; the points   *)
(* where it awaits the store or the hasher are the points where another    *)
(* request may run, so every handler is split into one action per await.   *)
(* The protect and restrictTo middleware are modelled as the pipeline of a  *)
(* protected route, and the browser side (AuthService over localStorage,    *)
(* AuthProvider over its context state) as calls that are sent, answered    *)
(* and returned.                                                            *)
(***************************************************************************)
EXTENDS Integers, Sequences, FiniteSets, TLC

(* ------------------------------ bounds -------------------------------- *)
\* number of clock advances explored
MaxTicks == 3

(* --------------------------- program constants ------------------------ *)
\* '1d' in seconds, the default of expiresIn
OneDay == 86400

\* the connections on which requests are handled concurrently; a slot is
\* reused after its response has been delivered
Slots == {1, 2}
\* the one connection of the sequential server that the clock runs against
ClockSlots == {1}

\* the JavaScript value undefined (a field absent from the JSON body, an unset
\* environment variable)
Undefined == "<undefined>"

\* values a body field takes: absent, empty, or one of two non-empty strings
EmailValues == {Undefined, "", "a@x", "b@x"}
PasswordValues == {Undefined, "", "pw1", "secret1"}
RoleValues == {Undefined}
Salts == {"s1"}
\* seconds by which the clock advances in one step
TickSteps == {1, OneDay - 1}

Bodies == [firstName : {"Jane"}, lastName : {"Doe"}, email : EmailValues,
           password : PasswordValues, role : RoleValues]

\* process.env as read by the handlers
Envs == [JWT_SECRET : {Undefined, "k"},
         JWT_EXPIRES_IN : {Undefined, "2s"},
         NODE_ENV : {"production", "development"}]
\* the configurations that leave the token lifetime at its default
DefaultExpiryEnvs == {e \in Envs : e.JWT_EXPIRES_IN = Undefined}

VARIABLES
  store,       \* the users collection: a set of user documents
  rq,          \* per slot: the request being handled and its response
  now,         \* the clock, in seconds
  ticks,       \* number of clock advances so far
  env,         \* process.env
  registered,  \* history: what each successful Register was given and returned
  pr,          \* per slot: the request passing through protect and restrictTo
  ls,          \* the browser's localStorage: the entries 'token' and 'user'
  ctx,         \* the state of AuthProvider: user and isAuthenticated
  calls,       \* the calls of the client's login and register in flight
  nav,         \* the router of the browser: the path asked for and the view shown
  last         \* history: the mutator of the session invoked most recently

\* the state of the middleware pipeline and of the browser
gate == <<pr>>
client == <<ls, ctx, calls, nav, last>>

vars == <<store, rq, now, ticks, env, registered, pr, ls, ctx, calls, nav,
          last>>

(* ------------------------ JavaScript truthiness ----------------------- *)
\* !v for the values a body field or environment variable takes
Falsy(v) == v \in {Undefined, ""}

\* a || b
OrElse(a, b) == IF Falsy(a) THEN b ELSE a

(* ------------------------------ AppError ------------------------------ *)
NoErr == [message |-> "", statusCode |-> 0, errorCode |-> "", details |-> <<>>, stack |-> ""]

AppError(message, statusCode, errorCode, details, site) ==
  [message |-> message, statusCode |-> statusCode, errorCode |-> errorCode,
   details |-> details, stack |-> site]

badRequest(message, details, site) == AppError(message, 400, "BAD_REQUEST", details, site)
unauthorized(message, details, site) == AppError(message, 401, "UNAUTHORIZED", details, site)
notFound(message, details, site) == AppError(message, 404, "NOT_FOUND", details, site)
conflict(message, details, site) == AppError(message, 409, "CONFLICT", details, site)
internalServer(message, details, site) == AppError(message, 500, "INTERNAL_SERVER_ERROR", details, site)

(* ----------------- router error handling middleware ------------------- *)
\* router.use((err, req, res, next) => ...): every error passed to next()
\* inside the auth router becomes a status and a JSON body
ErrorHandler(err, stage, e) ==
  [status |-> IF err.statusCode = 0 THEN 500 ELSE err.statusCode,
   body |-> IF e.NODE_ENV = "development"
            THEN [status |-> "error", message |-> err.message,
                  stage |-> stage, stack |-> err.stack]
            ELSE [status |-> "error", message |-> err.message]]

(* --------------------------- ObjectId and JSON ------------------------ *)
\* an ObjectId n is written into JSON (a token payload, a response body) as
\* its hex string, and findById casts the string back
ToHex(n) == <<"hex", n>>
CastObjectId(h) == h[2]

(* ------------------------- jsonwebtoken (library) --------------------- *)
\* the ms-style span of an expiresIn string, in seconds
Timespan(str) == IF str = "1d" THEN OneDay ELSE IF str = "2s" THEN 2 ELSE 0

NoToken == [id |-> <<>>, iat |-> 0, exp |-> 0, sig |-> ""]

\* jwt.sign(payload, secret, {expiresIn}) at time t; throws without a secret
jwtSign(id, secret, expiresIn, t) ==
  IF Falsy(secret)
  THEN [ok |-> FALSE, token |-> NoToken]
  ELSE [ok |-> TRUE,
        token |-> [id |-> ToHex(id), iat |-> t, exp |-> t + Timespan(expiresIn),
                   sig |-> secret]]

\* jwt.decode in place of jwt.verify: the payload is read, nothing is checked
jwtVerify_decodeOnly(token, secret, t) == [ok |-> TRUE, id |-> token.id]

\* jwt.verify(token, secret) at time t: the signature must be made with the
\* secret and the clock must be before exp
jwtVerify(token, secret, t) ==
  IF Falsy(secret) \/ token.sig # secret \/ t >= token.exp
  THEN [ok |-> FALSE, id |-> <<>>]
  ELSE [ok |-> TRUE, id |-> token.id]

(* ----------------------------- AuthMiddleware ------------------------- *)
\* a token whose payload does not carry the id it was asked for
generateToken_fixedId(id, e, t) ==
  jwtSign(1, e.JWT_SECRET, OrElse(e.JWT_EXPIRES_IN, "1d"), t)

\* a token whose lifetime falls back to two seconds instead of one day
generateToken_shortDefault(id, e, t) ==
  jwtSign(id, e.JWT_SECRET, OrElse(e.JWT_EXPIRES_IN, "2s"), t)

generateToken(id, e, t) ==
  jwtSign(id, e.JWT_SECRET, OrElse(e.JWT_EXPIRES_IN, "1d"), t)

(* ----------------------- User model and collection -------------------- *)
NoDoc == [_id |-> 0, firstName |-> "", lastName |-> "", email |-> "",
          password |-> [salt |-> "", digest |-> ""], role |-> ""]

\* password hasher: the salt is kept inside the hash
bcryptHash(plain, salt) == [salt |-> salt, digest |-> plain]

\* user.comparePassword(candidate)
comparePassword(doc, candidate) == bcryptHash(candidate, doc.password.salt) = doc.password

\* a lookup whose filter is dropped: any stored document matches
findOne_anyUser(s, email) ==
  IF s # {} THEN CHOOSE d \in s : TRUE ELSE NoDoc

\* User.findOne({ email }): the matching document, or none
findOne(s, email) ==
  IF \E d \in s : d.email = email
  THEN CHOOSE d \in s : d.email = email
  ELSE NoDoc

\* User.findById(id)
findById(s, h) ==
  IF \E d \in s : d._id = CastObjectId(h)
  THEN CHOOSE d \in s : d._id = CastObjectId(h)
  ELSE NoDoc

\* User.create on a collection without the unique index on email
create_noIndex(s, fields, salt) ==
  LET doc == [_id |-> Cardinality(s) + 1,
              firstName |-> fields.firstName, lastName |-> fields.lastName,
              email |-> fields.email,
              password |-> bcryptHash(fields.password, salt),
              role |-> fields.role]
  IN [ok |-> TRUE, code |-> 0, store |-> s \cup {doc}, doc |-> doc]

\* a collection that keeps its newest document only
create_capped(s, fields, salt) ==
  LET doc == [_id |-> Cardinality(s) + 1,
              firstName |-> fields.firstName, lastName |-> fields.lastName,
              email |-> fields.email,
              password |-> bcryptHash(fields.password, salt),
              role |-> fields.role]
  IN [ok |-> TRUE, code |-> 0, store |-> {doc}, doc |-> doc]

\* User.create(fields): the save hook hashes the password, the unique index
\* on email rejects a second document with the same email (error code 11000)
create(s, fields, salt) ==
  IF \E d \in s : d.email = fields.email
  THEN [ok |-> FALSE, code |-> 11000, store |-> s, doc |-> NoDoc]
  ELSE LET doc == [_id |-> Cardinality(s) + 1,
                   firstName |-> fields.firstName, lastName |-> fields.lastName,
                   email |-> fields.email,
                   password |-> bcryptHash(fields.password, salt),
                   role |-> fields.role]
       IN [ok |-> TRUE, code |-> 0, store |-> s \cup {doc}, doc |-> doc]

(* ------------------------------ requests ------------------------------ *)
NoBody == [firstName |-> Undefined, lastName |-> Undefined, email |-> Undefined,
           password |-> Undefined, role |-> Undefined]

NoRes == [status |-> 0, body |-> [status |-> ""]]

\* a slot with no request in it.  The fields after res are history the
\* handlers do not read: whether the email was in the store when the request
\* arrived, when its lookup ran and when its create ran, the lookups that ran
\* for it, whether an
\* operation of its failed, and the token generateToken returned to it with
\* the instant of the call.
Idle == [pc |-> "idle", route |-> "", stage |-> "", body |-> NoBody,
         user |-> NoDoc, err |-> NoErr, res |-> NoRes,
         knownAtArrival |-> FALSE, knownAtLookup |-> FALSE,
         knownAtCreate |-> FALSE,
         reads |-> 0, faulted |-> FALSE,
         issued |-> NoToken, issuedAt |-> 0, log |-> {},
         authorization |-> <<>>]

(* -------------------------------- console ------------------------------ *)
\* password.slice(0, 5) for the passwords a body carries
slice5(password) == IF password = "secret1" THEN "secre" ELSE password

\* a log entry that prints the request body (console.log of req.body, or of
\* JSON.stringify(req.body)): the password field of the body is in it
logBody(site, b) == [site |-> site, password |-> b.password, firstChars |-> Undefined]

\* the entry of the credentials breakdown: password.slice(0, 5) + '...'
logFirstChars(site, password) ==
  [site |-> site, password |-> Undefined,
   firstChars |-> IF Falsy(password) THEN "N/A" ELSE slice5(password)]

\* a log entry that prints nothing of the request's password
logPlain(site) == [site |-> site, password |-> Undefined, firstChars |-> Undefined]

\* console.log / console.error: the entries are appended to the log
console(q, entries) == [q EXCEPT !.log = @ \cup entries]

\* the router's middleware chain before any route: entry point, CORS debug,
\* content-type validation
routerLog(b) ==
  {logBody("routes:38", b), logBody("routes:80", b), logBody("routes:104", b)}

\* the first handler of POST /login
loginRouteLog(b) == {logBody("routes:125", b), logBody("routes:135", b)}

\* the entries the login controller writes before it validates
loginEntryLog(b) == {logBody("login:72", b), logFirstChars("login:85", b.password)}

\* some stored user has this email
Known(s, email) == \E d \in s : d.email = email

\* next(err): the router's error handler answers the request
NextErr(q, err, e) ==
  [console(q, {logBody("routes:151", q.body)})
     EXCEPT !.pc = "done", !.user = NoDoc, !.err = err,
            !.res = ErrorHandler(err, q.stage, e)]

\* res.status(code).json(body)
Send(q, code, body) ==
  [q EXCEPT !.pc = "done", !.user = NoDoc, !.res = [status |-> code, body |-> body]]

\* the nested conditional that fills details.missingFields
missingFields(email, password) ==
  IF Falsy(email) THEN <<"email">>
  ELSE IF Falsy(password) THEN <<"password">>
  ELSE <<>>

\* a validation that looks at the email only
invalidInput_emailOnly(b) == Falsy(b.email)

\* !email || !password
invalidInput(b) == Falsy(b.email) \/ Falsy(b.password)

(* ------------------------ UserController.register --------------------- *)
registerBadRequest(b) ==
  badRequest("Please provide email and password",
             [missingFields |-> missingFields(b.email, b.password)], "register:20")

\* the duplicate reported as a validation failure
registerConflict_asBadRequest(email) ==
  badRequest("User with this email already exists", [email |-> email], "register:28")

registerConflict(email) ==
  conflict("User with this email already exists", [email |-> email], "register:28")

\* a catch block that reports the outage as 503
registerFailed_unavailable(originalError) ==
  AppError("Registration failed", 503, "SERVICE_UNAVAILABLE",
           [originalError |-> originalError], "register:60")

\* the catch block: whatever was thrown becomes an InternalServer error
registerFailed(originalError) ==
  internalServer("Registration failed", [originalError |-> originalError], "register:60")

\* the body of the 201 response
registerSuccessBody(token, newUser) ==
  [status |-> "success", token |-> token,
   data |-> [user |-> [_id |-> ToHex(newUser._id), firstName |-> newUser.firstName,
                       lastName |-> newUser.lastName, email |-> newUser.email,
                       role |-> newUser.role]]]

\* POST /api/auth/register arrives: the router middleware sets the stage,
\* the handler validates the body and calls User.findOne
RegisterReceive(r, b) ==
  /\ rq[r].pc = "idle"
  /\ LET q == [Idle EXCEPT !.route = "register", !.stage = "initial", !.body = b,
                           !.knownAtArrival = Known(store, b.email),
                           !.log = routerLog(b)]
     IN rq' = [rq EXCEPT ![r] =
          IF invalidInput(b)
          THEN NextErr(q, registerBadRequest(b), env)
          ELSE [q EXCEPT !.pc = "findOne"]]
  /\ UNCHANGED <<store, now, ticks, env, registered>>
  /\ UNCHANGED <<gate, client>>

\* the lookup completes (or fails): conflict, or User.create is called
RegisterFindOne(r, fault) ==
  /\ rq[r].pc = "findOne" /\ rq[r].route = "register"
  /\ LET q == [rq[r] EXCEPT !.knownAtLookup = Known(store, rq[r].body.email)]
         existingUser == findOne(store, q.body.email)
     IN rq' = [rq EXCEPT ![r] =
          IF fault
          THEN NextErr([q EXCEPT !.faulted = TRUE], registerFailed("store"), env)
          ELSE IF existingUser # NoDoc
          THEN NextErr([q EXCEPT !.reads = @ + 1], registerConflict(q.body.email), env)
          ELSE [q EXCEPT !.reads = @ + 1, !.pc = "create"]]
  /\ UNCHANGED <<store, now, ticks, env, registered>>
  /\ UNCHANGED <<gate, client>>

\* the create completes (or fails); then the token is generated and the
\* 201 response is sent
RegisterCreate(r, fault, salt) ==
  /\ rq[r].pc = "create"
  /\ LET q == [rq[r] EXCEPT !.knownAtCreate = Known(store, rq[r].body.email)]
         b == q.body
         made == create(store, [firstName |-> b.firstName, lastName |-> b.lastName,
                                email |-> b.email, password |-> b.password,
                                role |-> OrElse(b.role, "user")], salt)
         newUser == made.doc
         gen == generateToken(newUser._id, env, now)
         body == registerSuccessBody(gen.token, newUser)
     IN IF fault \/ ~made.ok
        THEN /\ rq' = [rq EXCEPT ![r] =
                  NextErr([q EXCEPT !.faulted = fault],
                          registerFailed(IF fault THEN "store" ELSE "E11000"), env)]
             /\ UNCHANGED <<store, registered>>
        ELSE /\ store' = made.store
             /\ IF ~gen.ok
                THEN /\ rq' = [rq EXCEPT ![r] =
                          NextErr([q EXCEPT !.faulted = TRUE],
                                  registerFailed("secretOrPrivateKey must have a value"),
                                  env)]
                     /\ UNCHANGED registered
                ELSE /\ rq' = [rq EXCEPT ![r] =
                          Send([q EXCEPT !.issued = gen.token,
                                         !.issuedAt = now],
                               201, body)]
                     /\ registered' = registered \cup
                          {[email |-> b.email, password |-> b.password,
                            id |-> body.data.user._id]}
  /\ UNCHANGED <<now, ticks, env>>
  /\ UNCHANGED <<gate, client>>

(* -------------------------- UserController.login ---------------------- *)
loginBadRequest(b) ==
  badRequest("Please provide email and password",
             [missingFields |-> missingFields(b.email, b.password)], "login:106")

\* the missing user reported as a missing resource
loginUserNotFound_notFound(email) ==
  AppError("User not found", 404, "NOT_FOUND",
           [email |-> email, reason |-> "User not found"], "login:133")

loginUserNotFound(email) ==
  unauthorized("Incorrect email or password",
               [email |-> email, reason |-> "User not found"], "login:133")

\* a mismatch reported in words of its own
loginPasswordMismatch_leaky(email) ==
  unauthorized("Incorrect password",
               [email |-> email, reason |-> "Password mismatch"], "login:160")

loginPasswordMismatch(email) ==
  unauthorized("Incorrect email or password",
               [email |-> email, reason |-> "Password mismatch"], "login:160")

\* the catch block
loginFailed(originalError) ==
  internalServer("Login process failed", [originalError |-> originalError], "login:198")

\* a 200 response that returns the document as it was read, hash included
loginSuccessBody_wholeUser(token, user) ==
  [status |-> "success", token |-> token,
   data |-> [user |-> [_id |-> ToHex(user._id), email |-> user.email,
                       role |-> user.role, password |-> user.password]]]

\* the body of the 200 response
loginSuccessBody(token, user) ==
  [status |-> "success", token |-> token,
   data |-> [user |-> [_id |-> ToHex(user._id), email |-> user.email,
                       role |-> user.role]]]

\* POST /api/auth/login arrives: the route's first handler sets the stage,
\* the controller validates the body and calls User.findOne(+password)
LoginReceive(r, b) ==
  /\ rq[r].pc = "idle"
  /\ LET q == [Idle EXCEPT !.route = "login", !.stage = "login-route", !.body = b,
                           !.knownAtArrival = Known(store, b.email),
                           !.log = routerLog(b) \cup loginRouteLog(b)
                                     \cup loginEntryLog(b)]
     IN rq' = [rq EXCEPT ![r] =
          IF invalidInput(b)
          THEN NextErr(console(q, {[site |-> "login:101", password |-> b.password,
                                    firstChars |-> Undefined]}),
                       loginBadRequest(b), env)
          ELSE [q EXCEPT !.pc = "findOne"]]
  /\ UNCHANGED <<store, now, ticks, env, registered>>
  /\ UNCHANGED <<gate, client>>

\* the lookup completes (or fails): unauthorized, or comparePassword is called
LoginFindOne(r, fault) ==
  /\ rq[r].pc = "findOne" /\ rq[r].route = "login"
  /\ LET q == [rq[r] EXCEPT !.knownAtLookup = Known(store, rq[r].body.email)]
         user == findOne(store, q.body.email)
         found == console(q, {logPlain("login:116")})
     IN rq' = [rq EXCEPT ![r] =
          IF fault
          THEN NextErr(console([q EXCEPT !.faulted = TRUE],
                               {logBody("login:188", q.body)}),
                       loginFailed("store"), env)
          ELSE IF user = NoDoc
          THEN NextErr(console([found EXCEPT !.reads = @ + 1],
                               {logPlain("login:129")}),
                       loginUserNotFound(q.body.email), env)
          ELSE [found EXCEPT !.reads = @ + 1, !.user = user, !.pc = "compare"]]
  /\ UNCHANGED <<store, now, ticks, env, registered>>
  /\ UNCHANGED <<gate, client>>

\* the comparison completes (or fails): unauthorized, or the token is
\* generated and the 200 response is sent
LoginCompare(r, fault) ==
  /\ rq[r].pc = "compare"
  /\ LET q == rq[r]
         user == q.user
         isMatch == comparePassword(user, q.body.password)
         gen == generateToken(user._id, env, now)
         compared == console(q, {logPlain("login:144")})
     IN rq' = [rq EXCEPT ![r] =
          IF fault
          THEN NextErr(console([q EXCEPT !.faulted = TRUE],
                               {logBody("login:188", q.body)}),
                       loginFailed("hasher"), env)
          ELSE IF ~isMatch
          THEN NextErr(console(compared, {logPlain("login:155")}),
                       loginPasswordMismatch(q.body.email), env)
          ELSE IF ~gen.ok
          THEN NextErr(console([compared EXCEPT !.faulted = TRUE],
                               {logBody("login:188", q.body)}),
                       loginFailed("secretOrPrivateKey must have a value"), env)
          ELSE Send(console([compared EXCEPT !.issued = gen.token, !.issuedAt = now],
                            {logPlain("login:169")}),
                    200, loginSuccessBody(gen.token, user))]
  /\ UNCHANGED <<store, now, ticks, env, registered>>
  /\ UNCHANGED <<gate, client>>

(* ------------------------ routes that match nothing ------------------- *)
\* err.name and err.code of an AppError: the class sets neither, so the name
\* is that of Error and there is no code (0 here)
errName(err) == "Error"
errCode(err) == 0

\* the error handler of app.js, which receives what leaves the auth router
appErrorHandler(err, e) ==
  [status |-> IF errName(err) = "ValidationError" THEN 400
              ELSE IF errCode(err) = 11000 THEN 409
              ELSE 500,
   body |-> [status |-> "error",
             message |-> IF errName(err) = "ValidationError" THEN err.message
                         ELSE IF errCode(err) = 11000 THEN "Duplicate key error"
                         ELSE "An internal server error occurred",
             error |-> IF e.NODE_ENV = "development"
                       THEN [statusCode |-> err.statusCode, errorCode |-> err.errorCode]
                       ELSE [statusCode |-> 0, errorCode |-> ""]]]

\* requests under /api/auth that no route of the router matches
UnmatchedTargets == {"GET /api/auth/profile", "POST /api/auth/logout", "DELETE /api/auth/me"}

\* the catch-all of the auth router
catchAll(target) == notFound("Cannot " \o target \o " in auth routes", <<>>, "routes:174")

\* a request that matches no route passes the router's middleware and
\* reaches the catch-all, which calls next(err); the router's error handler
\* is registered before the catch-all, so the error leaves the router and is
\* answered by the error handler of the app
Unmatched(r, target) ==
  /\ rq[r].pc = "idle"
  /\ LET q == [Idle EXCEPT !.route = target, !.stage = "initial",
                           !.log = routerLog(NoBody)]
         err == catchAll(target)
     IN rq' = [rq EXCEPT ![r] =
          [q EXCEPT !.pc = "done", !.err = err, !.res = appErrorHandler(err, env)]]
  /\ UNCHANGED <<store, now, ticks, env, registered>>
  /\ UNCHANGED <<gate, client>>

(* ----------------------------- environment ---------------------------- *)
\* the response has been delivered; the slot takes the next request
Release(r) ==
  /\ rq[r].pc = "done"
  /\ rq' = [rq EXCEPT ![r] = Idle]
  /\ UNCHANGED <<store, now, ticks, env, registered>>
  /\ UNCHANGED <<gate, client>>

\* time passes
Tick(d) ==
  /\ ticks < MaxTicks
  /\ now' = now + d
  /\ ticks' = ticks + 1
  /\ UNCHANGED <<store, rq, env, registered>>
  /\ UNCHANGED <<gate, client>>

(* ------------------------- AuthMiddleware.protect --------------------- *)
\* the roles a user document carries
RoleNames == {"user", "admin"}

\* the Authorization header is modelled by its pieces between spaces, the
\* result of split(' '); a piece is its text and, when the text is a compact
\* JWT, the token it encodes
Word(str) == [str |-> str, jwt |-> NoToken]
JwtWord(token) == [str |-> "eyJ", jwt |-> token]
\* the value of an index past the end of the array
UndefinedWord == Word(Undefined)
\* no Authorization header
NoHeader == <<>>

\* the tokens a caller presents: issued at time 0 for one day, for user 1 or
\* 2, signed with the server's secret or with another one, or not a JWT at all
TokenWords ==
  {JwtWord(jwtSign(id, secret, "1d", 0).token) : id \in {1, 2}, secret \in {"k", "forged"}}
  \cup {Word("garbage")}

\* the first piece of the header values explored
Schemes == {"Bearer", "BearerX", "Basic"}

Headers ==
  {<<Word(scheme), t>> : scheme \in Schemes, t \in TokenWords}
  \cup {NoHeader, <<Word("Bearer")>>,
        <<Word("Bearer"), Word(""), JwtWord(jwtSign(1, "k", "1d", 0).token)>>}

\* authorization.startsWith('Bearer'), by the first piece of the header
startsWithBearer(h) == h[1].str \in {"Bearer", "BearerX"}

\* the token protect takes from the header: split(' ')[1], or undefined
extractToken(h) ==
  IF h # NoHeader /\ ~Falsy(h[1].str) /\ startsWithBearer(h)
  THEN IF Len(h) >= 2 THEN h[2] ELSE UndefinedWord
  ELSE UndefinedWord

\* jwt.verify on the string taken from the header: the error it throws, in
\* the order jsonwebtoken checks, or none
jwtVerifyCompact(word, secret, t) ==
  LET v == jwtVerify(word.jwt, secret, t)
  IN IF word.str # "eyJ"
     THEN [ok |-> FALSE, id |-> <<>>, error |-> "jwt malformed"]
     ELSE IF v.ok
     THEN [ok |-> TRUE, id |-> v.id, error |-> ""]
     ELSE [ok |-> FALSE, id |-> <<>>,
           error |-> IF Falsy(secret) THEN "secret or public key must be provided"
                     ELSE IF word.jwt.sig # secret THEN "invalid signature"
                     ELSE "jwt expired"]

\* a reply that reports every refusal as a fault of the server
jsonError_internal(code, message) ==
  [status |-> 500, body |-> [status |-> "error", message |-> message]]

\* res.status(code).json({status: 'error', message})
jsonError(code, message) ==
  [status |-> code, body |-> [status |-> "error", message |-> message]]

\* a catch block that passes the verifier's error on to the caller
tokenRejected_named(error) == jsonError(401, error)

\* the catch block of protect: whatever was thrown, one answer
tokenRejected(error) == jsonError(401, "Token is invalid or has expired")

IdleGate == [pc |-> "idle", header |-> NoHeader, token |-> UndefinedWord,
             decoded |-> <<>>, error |-> "", user |-> NoDoc, res |-> NoRes,
             nextCalled |-> FALSE, faulted |-> FALSE,
             gated |-> FALSE, roles |-> {}, handlerRan |-> FALSE]

\* a request arrives at protect: the token is taken from the header and
\* verified, and User.findById is called
ProtectReceive(r, h) ==
  /\ pr[r].pc = "idle"
  /\ LET token == extractToken(h)
         q == [IdleGate EXCEPT !.header = h, !.token = token]
         decoded == jwtVerifyCompact(token, env.JWT_SECRET, now)
     IN pr' = [pr EXCEPT ![r] =
          IF Falsy(token.str)
          THEN [q EXCEPT !.pc = "done",
                         !.res = jsonError(401, "Not authorized to access this route")]
          ELSE IF ~decoded.ok
          THEN [q EXCEPT !.pc = "done", !.error = decoded.error,
                         !.res = tokenRejected(decoded.error)]
          ELSE [q EXCEPT !.pc = "findById", !.decoded = decoded.id]]
  /\ UNCHANGED <<store, rq, now, ticks, env, registered, client>>

\* the lookup completes (or fails): the user is attached and next() is called
ProtectFindById(r, fault) ==
  /\ pr[r].pc = "findById"
  /\ LET q == pr[r]
         currentUser == findById(store, q.decoded)
     IN pr' = [pr EXCEPT ![r] =
          IF fault
          THEN [q EXCEPT !.pc = "done", !.faulted = TRUE, !.error = "store",
                         !.res = tokenRejected("store")]
          ELSE IF currentUser = NoDoc
          THEN [q EXCEPT !.pc = "done",
                         !.res = jsonError(401, "User no longer exists")]
          ELSE [q EXCEPT !.pc = "gate", !.user = currentUser, !.nextCalled = TRUE]]
  /\ UNCHANGED <<store, rq, now, ticks, env, registered, client>>

(* ------------------------ AuthMiddleware.restrictTo ------------------- *)
\* a gate that lets administrators through whatever its allow-list
restrictTo_adminOnly(roles, user) ==
  IF user.role # "admin"
  THEN [next |-> FALSE,
        res |-> jsonError(403, "You do not have permission to perform this action")]
  ELSE [next |-> TRUE, res |-> NoRes]

\* the middleware restrictTo(...roles) returns, applied to req.user
restrictTo(roles, user) ==
  IF user.role \notin roles
  THEN [next |-> FALSE,
        res |-> jsonError(403, "You do not have permission to perform this action")]
  ELSE [next |-> TRUE, res |-> NoRes]

\* the gate of the route runs after protect; when it calls next() the
\* route's handler runs
RestrictTo(r, roles) ==
  /\ pr[r].pc = "gate"
  /\ LET g == restrictTo(roles, pr[r].user)
     IN pr' = [pr EXCEPT ![r] =
          [@ EXCEPT !.pc = "done", !.gated = TRUE, !.roles = roles,
                    !.res = g.res, !.handlerRan = g.next]]
  /\ UNCHANGED <<store, rq, now, ticks, env, registered, client>>

\* the response has been delivered; the slot takes the next request
ProtectRelease(r) ==
  /\ pr[r].pc = "done"
  /\ pr' = [pr EXCEPT ![r] = IdleGate]
  /\ UNCHANGED <<store, rq, now, ticks, env, registered, client>>

GateAtRest == pr = [r \in Slots |-> IdleGate]

(* ------------------------------ GET /me ------------------------------- *)
\* a profile route with the token check in front of it
getMe_protected(h) ==
  IF Falsy(extractToken(h).str)
  THEN jsonError(401, "Not authorized to access this route")
  ELSE [status |-> 200,
        body |-> [status |-> "success", data |-> [message |-> "User profile endpoint"]]]

\* router.get('/me', UserController.getMe): the handler is the whole route
\* and answers with a placeholder, whatever the request carries
getMe(h) ==
  [status |-> 200,
   body |-> [status |-> "success", data |-> [message |-> "User profile endpoint"]]]

\* GET /api/auth/me arrives with some Authorization header, or none
GetMe(r, h) ==
  /\ rq[r].pc = "idle"
  /\ rq' = [rq EXCEPT ![r] =
        [Idle EXCEPT !.pc = "done", !.route = "me", !.stage = "initial",
                     !.authorization = h, !.log = routerLog(NoBody),
                     !.res = getMe(h)]]
  /\ UNCHANGED <<store, now, ticks, env, registered>>
  /\ UNCHANGED <<gate, client>>

(* ------------------------------- browser ------------------------------ *)
\* the calls of login and register that can be in flight together
Calls == {1, 2}
\* the JavaScript value null
Null == "<null>"
NoCall == [pc |-> "idle", kind |-> "", error |-> ""]

\* the user summaries and tokens the server's responses carry
UserSummaries == {"jane", "admin"}
TokenStrings == {"t1", "t2"}
\* the bodies of 2xx responses: {token, data: {user}}, the token possibly missing
ResponseBodies == [token : TokenStrings \cup {Undefined}, data : [user : UserSummaries]]
\* what axios rejects with: a response outside 2xx, or no response at all
AxiosErrors == {"Request failed with status code 401", "Network Error"}

\* JSON.stringify of a user summary
stringify(u) ==
  IF u = "jane" THEN "{jane}" ELSE IF u = "admin" THEN "{admin}" ELSE "undefined"

\* JSON.parse of a stored user entry
parse(str) ==
  IF str = "{jane}" THEN "jane" ELSE IF str = "{admin}" THEN "admin" ELSE Undefined

(* ------------------------------ AuthService --------------------------- *)
EmptyStorage == [token |-> Null, user |-> Null]

\* a service that keeps the token of a response and forgets its user
storeAuth_tokenOnly(l, body) ==
  IF ~Falsy(body.token) THEN [l EXCEPT !.token = body.token] ELSE l

\* what login and register do with a 2xx response: token and user are
\* written to localStorage when the body carries a token
storeAuth(l, body) ==
  IF ~Falsy(body.token)
  THEN [token |-> body.token, user |-> stringify(body.data.user)]
  ELSE l

\* a logout that leaves the user entry behind
removeAuth_tokenOnly(l) == [l EXCEPT !.token = Null]

\* AuthService.logout: both entries are removed
removeAuth(l) == [token |-> Null, user |-> Null]

\* AuthService.getCurrentUser
getCurrentUser(l) == IF l.user # Null /\ l.user # "" THEN parse(l.user) ELSE Null

\* AuthService.isAuthenticated
isAuthenticated(l) == ~(l.token = Null \/ l.token = "")

(* ------------------------------ AuthProvider -------------------------- *)
\* the continuation of login and register after the service has resolved
setSession(c0, body) == [user |-> body.data.user, isAuthenticated |-> TRUE]

\* a catch block that signs the user out before it rethrows
catchError_signOut(c0, error) == [user |-> Null, isAuthenticated |-> FALSE]

\* the catch block of login and register: the context is left as it is
catchError(c0, error) == c0

(* ------------------------------ route guard -------------------------- *)
\* the paths of App's routes, and those wrapped in the guard
Paths == {"/login", "/dashboard", "/chat"}
ProtectedPaths == {"/dashboard", "/chat"}

\* PrivateRoute: the nested view when authenticated, else Navigate to /login
PrivateRoute(authenticated, path) == IF authenticated THEN path ELSE "/login"

\* a guard that lets every navigation through
ProtectedRoute_open(authenticated, path) == path

\* ProtectedRoute, the guard App wraps around its protected views
ProtectedRoute(authenticated, path) == PrivateRoute(authenticated, path)

\* what the router shows for a path under the current context value
render(authenticated, path) ==
  IF path \in ProtectedPaths THEN ProtectedRoute(authenticated, path) ELSE path

NavAtRest == [requested |-> "/login", shown |-> "/login"]

\* the user navigates to a path: the route's element is rendered
Navigate(path) ==
  /\ nav' = [requested |-> path, shown |-> render(ctx.isAuthenticated, path)]
  /\ UNCHANGED <<ls, ctx, calls, last>>
  /\ UNCHANGED <<store, rq, now, ticks, env, registered, gate>>

\* login(email, password) or register(...) is invoked: the request is sent
ClientCall(c, kind) ==
  /\ calls[c].pc = "idle"
  /\ calls' = [calls EXCEPT ![c] = [pc |-> "pending", kind |-> kind, error |-> ""]]
  /\ last' = [op |-> kind, call |-> c]
  /\ UNCHANGED <<ls, ctx, nav>>
  /\ UNCHANGED <<store, rq, now, ticks, env, registered, gate>>

\* the request is answered 2xx: the service stores the session and returns
\* the body, the provider sets user and isAuthenticated and its consumers
\* are rendered again
ClientFulfil(c, body) ==
  /\ calls[c].pc = "pending"
  /\ ls' = storeAuth(ls, body)
  /\ ctx' = setSession(ctx, body)
  /\ calls' = [calls EXCEPT ![c].pc = "resolved"]
  /\ nav' = [nav EXCEPT !.shown = render(ctx'.isAuthenticated, @)]
  /\ UNCHANGED last
  /\ UNCHANGED <<store, rq, now, ticks, env, registered, gate>>

\* the request fails: the service and the provider both rethrow
ClientReject(c, error) ==
  /\ calls[c].pc = "pending"
  /\ ctx' = catchError(ctx, error)
  /\ calls' = [calls EXCEPT ![c].pc = "rejected", ![c].error = error]
  /\ nav' = [nav EXCEPT !.shown = render(ctx'.isAuthenticated, @)]
  /\ UNCHANGED <<ls, last>>
  /\ UNCHANGED <<store, rq, now, ticks, env, registered, gate>>

\* the caller has the outcome of its call
ClientReturn(c) ==
  /\ calls[c].pc \in {"resolved", "rejected"}
  /\ calls' = [calls EXCEPT ![c] = NoCall]
  /\ UNCHANGED <<ls, ctx, nav, last>>
  /\ UNCHANGED <<store, rq, now, ticks, env, registered, gate>>

\* logout(); the consumers of the context are rendered again
ClientLogout ==
  /\ ls' = removeAuth(ls)
  /\ ctx' = [user |-> Null, isAuthenticated |-> FALSE]
  /\ nav' = [nav EXCEPT !.shown = render(ctx'.isAuthenticated, @)]
  /\ last' = [op |-> "logout", call |-> 0]
  /\ UNCHANGED calls
  /\ UNCHANGED <<store, rq, now, ticks, env, registered, gate>>

ClientAtRest ==
  /\ ls = EmptyStorage
  /\ ctx = [user |-> Null, isAuthenticated |-> FALSE]
  /\ calls = [c \in Calls |-> NoCall]
  /\ nav = NavAtRest
  /\ last = [op |-> "", call |-> 0]

(* ---------------------------- specification --------------------------- *)
\* the server with two connections served concurrently, at one instant
Init ==
  /\ store = {}
  /\ rq = [r \in Slots |-> Idle]
  /\ now = 0
  /\ ticks = 0
  /\ env \in DefaultExpiryEnvs
  /\ registered = {}
  /\ GateAtRest /\ ClientAtRest

Handle(S) ==
  \/ \E r \in S, b \in Bodies : RegisterReceive(r, b)
  \/ \E r \in S, fault \in BOOLEAN : RegisterFindOne(r, fault)
  \/ \E r \in S, fault \in BOOLEAN, salt \in Salts : RegisterCreate(r, fault, salt)
  \/ \E r \in S, b \in Bodies : LoginReceive(r, b)
  \/ \E r \in S, fault \in BOOLEAN : LoginFindOne(r, fault)
  \/ \E r \in S, fault \in BOOLEAN : LoginCompare(r, fault)
  \/ \E r \in S : Release(r)

Next == Handle(Slots)

Spec == Init /\ [][Next]_vars

\* the server with one connection while time passes, under every
\* configuration of the token lifetime
InitClock ==
  /\ store = {}
  /\ rq = [r \in Slots |-> Idle]
  /\ now = 0
  /\ ticks = 0
  /\ env \in Envs
  /\ registered = {}
  /\ GateAtRest /\ ClientAtRest

NextClock ==
  \/ Handle(ClockSlots)
  \/ \E d \in TickSteps : Tick(d)

SpecClock == InitClock /\ [][NextClock]_vars

\* the auth router as app.js mounts it, with every request it can receive, on
\* one connection
NextRouter ==
  \/ Handle(ClockSlots)
  \/ \E r \in ClockSlots, target \in UnmatchedTargets : Unmatched(r, target)
  \/ \E r \in ClockSlots, h \in Headers : GetMe(r, h)

SpecRouter == InitClock /\ [][NextRouter]_vars

\* the router and a route behind protect and restrictTo on one connection
\* each, over the same users collection
NextServer ==
  \/ NextRouter
  \/ \E r \in ClockSlots, h \in Headers : ProtectReceive(r, h)
  \/ \E r \in ClockSlots, fault \in BOOLEAN : ProtectFindById(r, fault)
  \/ \E r \in ClockSlots, roles \in SUBSET RoleNames : RestrictTo(r, roles)
  \/ \E r \in ClockSlots : ProtectRelease(r)

SpecServer == Init /\ [][NextServer]_vars

\* an awaited call of the handler in slot r completes or is rejected
Settle(r) ==
  \/ \E fault \in BOOLEAN : RegisterFindOne(r, fault)
  \/ \E fault \in BOOLEAN, salt \in Salts : RegisterCreate(r, fault, salt)
  \/ \E fault \in BOOLEAN : LoginFindOne(r, fault)
  \/ \E fault \in BOOLEAN : LoginCompare(r, fault)

\* the same router when every awaited promise is settled in the end: the
\* driver answers or gives up after its timeouts
SpecRouterFair == SpecRouter /\ \A r \in ClockSlots : WF_vars(Settle(r))

\* the users collection after Jane has registered, and after an administrator
\* has registered as well
JaneOnly ==
  create({}, [firstName |-> "Jane", lastName |-> "Doe", email |-> "a@x",
              password |-> "pw1", role |-> OrElse(Undefined, "user")], "s1").store
JaneAndAdmin ==
  create(JaneOnly, [firstName |-> "Jane", lastName |-> "Doe", email |-> "b@x",
                    password |-> "secret1", role |-> OrElse("admin", "user")], "s1").store

\* a protected route (protect, then restrictTo, then the handler) on two
\* connections while time passes, over a collection that register has filled
InitGate ==
  /\ store \in {{}, JaneOnly, JaneAndAdmin}
  /\ rq = [r \in Slots |-> Idle]
  /\ now = 0
  /\ ticks = 0
  /\ env \in {e \in DefaultExpiryEnvs : e.NODE_ENV = "production"}
  /\ registered = {}
  /\ GateAtRest /\ ClientAtRest

NextGate ==
  \/ \E r \in Slots, h \in Headers : ProtectReceive(r, h)
  \/ \E r \in Slots, fault \in BOOLEAN : ProtectFindById(r, fault)
  \/ \E r \in Slots, roles \in SUBSET RoleNames : RestrictTo(r, roles)
  \/ \E r \in Slots : ProtectRelease(r)
  \/ \E d \in TickSteps : Tick(d)

SpecGate == InitGate /\ [][NextGate]_vars

\* what an earlier visit has left in localStorage
PersistedStorage ==
  {EmptyStorage} \cup {storeAuth(EmptyStorage, b) : b \in ResponseBodies}

\* the browser: AuthProvider is mounted over what localStorage holds, then
\* login, register and logout are called and requests are answered
InitClient ==
  /\ store = {}
  /\ rq = [r \in Slots |-> Idle]
  /\ now = 0
  /\ ticks = 0
  /\ env \in {e \in DefaultExpiryEnvs : e.NODE_ENV = "production" /\ e.JWT_SECRET = "k"}
  /\ registered = {}
  /\ GateAtRest
  /\ ls \in PersistedStorage
  /\ ctx = [user |-> getCurrentUser(ls), isAuthenticated |-> isAuthenticated(ls)]
  /\ calls = [c \in Calls |-> NoCall]
  /\ nav = NavAtRest
  /\ last = [op |-> "", call |-> 0]

NextClient ==
  \/ \E c \in Calls, kind \in {"login", "register"} : ClientCall(c, kind)
  \/ \E c \in Calls, body \in ResponseBodies : ClientFulfil(c, body)
  \/ \E c \in Calls, error \in AxiosErrors : ClientReject(c, error)
  \/ \E c \in Calls : ClientReturn(c)
  \/ ClientLogout
  \/ \E path \in Paths : Navigate(path)

SpecClient == InitClient /\ [][NextClient]_vars

(* ======================= properties of the handlers =================== *)
Done(r) == rq[r].pc = "done"
IsRegister(r) == rq[r].route = "register"
IsLogin(r) == rq[r].route = "login"
\* email and password are both present and non-empty
BothPresent(b) == b.email \notin {Undefined, ""} /\ b.password \notin {Undefined, ""}
Status(r) == rq[r].res.status
HasToken(r) == "token" \in DOMAIN rq[r].res.body

\* C1: two Register requests with the same email that both pass validation
\* and are in flight together are answered one with 201 and the other with
\* 409, whichever way their lookups and creates interleave.
C1_OneWinnerOtherConflict ==
  \A r1, r2 \in Slots :
    ( /\ r1 # r2
      /\ Done(r1) /\ Done(r2)
      /\ IsRegister(r1) /\ IsRegister(r2)
      /\ BothPresent(rq[r1].body) /\ BothPresent(rq[r2].body)
      /\ rq[r1].body.email = rq[r2].body.email
      /\ ~rq[r1].knownAtArrival /\ ~rq[r2].knownAtArrival
      /\ ~rq[r1].faulted /\ ~rq[r2].faulted )
    => {Status(r1), Status(r2)} = {201, 409}

\* C2: the store never holds two user records with the same email.
C2_AtMostOneRecordPerEmail ==
  \A d1, d2 \in store : d1.email = d2.email => d1 = d2

\* a Register lost the race for its email: its lookup found nothing, its
\* create found the email taken, and a Login has been handled as well
C2_Witness ==
  \E r1, r2 \in Slots :
    /\ Done(r1) /\ IsRegister(r1)
    /\ ~rq[r1].knownAtLookup /\ rq[r1].knownAtCreate
    /\ Done(r2) /\ IsLogin(r2) /\ Status(r2) = 200
    /\ Cardinality(store) = 2

\* the plaintext a stored hash was made from
StoredPlaintext(d) == d.password.digest

\* a Login whose lookup ran and found no user with its email
UnknownEmailLogin(r) ==
  /\ Done(r) /\ IsLogin(r) /\ BothPresent(rq[r].body) /\ ~rq[r].faulted
  /\ ~rq[r].knownAtLookup

\* a Login whose lookup found the user and whose password is not the user's
WrongPasswordLogin(r) ==
  /\ Done(r) /\ IsLogin(r) /\ BothPresent(rq[r].body) /\ ~rq[r].faulted
  /\ rq[r].knownAtLookup
  /\ \E d \in store : d.email = rq[r].body.email
                      /\ StoredPlaintext(d) # rq[r].body.password

\* C3: a Login for an email that is not registered and a Login with a wrong
\* password for a registered email are both answered 401 with the same
\* message text.
C3_SameAnswerForUnknownAndWrong ==
  \A r1, r2 \in Slots :
    (UnknownEmailLogin(r1) /\ WrongPasswordLogin(r2))
    => /\ Status(r1) = 401
       /\ Status(r2) = 401
       /\ rq[r1].res.body.message = rq[r2].res.body.message

\* both kinds of failed Login have been answered, in development mode
C3_Witness ==
  \E r1, r2 \in Slots :
    /\ UnknownEmailLogin(r1) /\ WrongPasswordLogin(r2)
    /\ env.NODE_ENV = "development"

\* a Register that passed validation, met no fault, and whose email was in
\* the store neither when it arrived nor when its lookup and create ran
FreshRegister(r) ==
  /\ Done(r) /\ IsRegister(r) /\ BothPresent(rq[r].body) /\ ~rq[r].faulted
  /\ ~rq[r].knownAtArrival /\ ~rq[r].knownAtLookup /\ ~rq[r].knownAtCreate

\* C4: a valid Register of a fresh email, with no fault, is answered 201,
\* the store then holds exactly one record with that email, and the token of
\* the response verifies to the id of that record.
C4_FreshRegisterSucceeds ==
  \A r \in Slots :
    FreshRegister(r)
    => /\ Status(r) = 201
       /\ Cardinality({d \in store : d.email = rq[r].body.email}) = 1
       /\ HasToken(r)
       /\ LET v == jwtVerify(rq[r].res.body.token, env.JWT_SECRET, now)
          IN /\ v.ok
             /\ findById(store, v.id).email = rq[r].body.email

\* a fresh Register has been answered while another user was already stored
C4_Witness ==
  \E r \in Slots : FreshRegister(r) /\ Status(r) = 201 /\ Cardinality(store) = 2

\* C5: a Register that passes validation, for an email that a stored user
\* already has when the request arrives, is answered 409 when its lookup
\* answers, is given no token, and no step of it changes the store.
C5_DuplicateRegisterConflict ==
  [][\A r \in Slots :
       ( /\ rq'[r] # rq[r]
         /\ rq'[r].route = "register"
         /\ BothPresent(rq'[r].body)
         /\ rq'[r].knownAtArrival )
       => /\ store' = store
          /\ rq'[r].issued = NoToken
          /\ (rq'[r].pc = "done" /\ ~rq'[r].faulted)
               => /\ rq'[r].res.status = 409
                  /\ "token" \notin DOMAIN rq'[r].res.body]_vars

\* a Register for an email stored by an earlier request has been answered
C5_Witness ==
  \E r \in Slots :
    /\ Done(r) /\ IsRegister(r) /\ BothPresent(rq[r].body)
    /\ rq[r].knownAtArrival /\ ~rq[r].faulted /\ Status(r) = 409

\* C6: a Login with the email and password of a Register that was answered
\* 201 before the Login arrived is answered 200, and the user id of the
\* response and of its token is the id the Register returned.
C6_LoginAfterRegister ==
  \A r \in Slots : \A g \in registered :
    ( /\ Done(r) /\ IsLogin(r) /\ ~rq[r].faulted
      /\ rq[r].knownAtArrival
      /\ rq[r].body.email = g.email /\ rq[r].body.password = g.password )
    => /\ Status(r) = 200
       /\ rq[r].res.body.data.user._id = g.id
       /\ rq[r].res.body.token.id = g.id

\* the second registered user has logged in
C6_Witness ==
  \E r \in Slots : \E g \in registered :
    /\ Done(r) /\ IsLogin(r) /\ rq[r].knownAtArrival /\ Status(r) = 200
    /\ rq[r].body.email = g.email /\ rq[r].body.password = g.password
    /\ g.id = ToHex(2)

\* the lifetime the configuration gives a token: JWT_EXPIRES_IN, one day
\* when it is not set
ExpiryPeriod == IF env.JWT_EXPIRES_IN = "2s" THEN 2 ELSE OneDay

\* C7: a token generated for a user verifies to that user's id at every
\* instant before issuance plus the configured lifetime (one day by
\* default), and fails verification at every instant from then on.
C7_TokenRoundTripUntilExpiry ==
  \A r \in Slots :
    rq[r].issued # NoToken
    => LET v == jwtVerify(rq[r].issued, env.JWT_SECRET, now)
           expiry == rq[r].issuedAt + ExpiryPeriod
       IN /\ now < expiry
               => /\ v.ok
                  /\ v.id = rq[r].res.body.data.user._id
                  /\ findById(store, v.id).email = rq[r].body.email
          /\ now >= expiry => ~v.ok

\* a token of the default lifetime, issued after the clock had moved, has
\* reached its expiry
C7_Witness ==
  \E r \in Slots :
    /\ rq[r].issued # NoToken
    /\ env.JWT_EXPIRES_IN = Undefined
    /\ rq[r].issuedAt > 0
    /\ now >= rq[r].issuedAt + OneDay

\* C8: a Register or Login whose email or password is missing or empty is
\* answered 400 in the step that receives it; no lookup runs for it, the
\* store is not changed and no token is issued.
C8_InvalidInputBadRequest ==
  [][\A r \in Slots :
       ( /\ rq'[r] # rq[r]
         /\ rq'[r].route \in {"register", "login"}
         /\ ~BothPresent(rq'[r].body) )
       => /\ rq'[r].pc = "done"
          /\ rq'[r].res.status = 400
          /\ rq'[r].reads = 0
          /\ store' = store
          /\ rq'[r].issued = NoToken
          /\ "token" \notin DOMAIN rq'[r].res.body]_vars

\* a Login and a Register with a missing or empty field have been answered
\* while the store held a user
C8_Witness ==
  \E r1, r2 \in Slots :
    /\ Done(r1) /\ IsLogin(r1) /\ rq[r1].body.password = "" /\ Status(r1) = 400
    /\ Done(r2) /\ IsRegister(r2) /\ rq[r2].body.email = Undefined /\ Status(r2) = 400
    /\ store # {}

\* the fields of a body that are missing or empty
AbsentFields(b) ==
  (IF b.email \in {Undefined, ""} THEN {"email"} ELSE {})
    \cup (IF b.password \in {Undefined, ""} THEN {"password"} ELSE {})

\* C9: the BadRequest error of a Register that fails validation names every
\* field among email and password that is missing or empty.
C9_NamesEveryMissingField ==
  \A r \in Slots :
    (Done(r) /\ IsRegister(r) /\ ~BothPresent(rq[r].body))
    => /\ rq[r].err.statusCode = 400
       /\ {rq[r].err.details.missingFields[i] :
             i \in 1..Len(rq[r].err.details.missingFields)}
            = AbsentFields(rq[r].body)

\* C10: every answer to a Register has status 201, 400, 409 or 500 and every
\* answer to a Login has status 200, 400, 401 or 500.
C10_StatusSets ==
  \A r \in Slots :
    Done(r)
    => /\ IsRegister(r) => Status(r) \in {201, 400, 409, 500}
       /\ IsLogin(r) => Status(r) \in {200, 400, 401, 500}

\* a Register and a Login have each been answered after a store fault
C10_Witness ==
  \E r1, r2 \in Slots :
    /\ Done(r1) /\ IsRegister(r1) /\ rq[r1].faulted /\ Status(r1) = 500
    /\ Done(r2) /\ IsLogin(r2) /\ rq[r2].faulted /\ Status(r2) = 500

\* the message texts the handlers give their errors
HandlerMessages ==
  {"Please provide email and password", "User with this email already exists",
   "Registration failed", "Incorrect email or password", "Login process failed"}

\* C11: the user summary of a 201 response has exactly the fields _id,
\* firstName, lastName, email and role, that of a 200 response exactly _id,
\* email and role; no response body, success or failure, has a field that
\* holds the stored password hash.
C11_SummaryWithoutHash ==
  \A r \in Slots :
    Done(r)
    => LET b == rq[r].res.body
       IN IF Status(r) \in {200, 201}
          THEN /\ DOMAIN b = {"status", "token", "data"}
               /\ DOMAIN b.data = {"user"}
               /\ DOMAIN b.token = {"id", "iat", "exp", "sig"}
               /\ DOMAIN b.data.user =
                    IF Status(r) = 201
                    THEN {"_id", "firstName", "lastName", "email", "role"}
                    ELSE {"_id", "email", "role"}
          ELSE /\ DOMAIN b \subseteq {"status", "message", "stage", "stack"}
               /\ b.message \in HandlerMessages

\* a Login has been answered 200 from a document read with its hash, and a
\* Register of the same user 201
C11_Witness ==
  \E r1, r2 \in Slots :
    /\ Done(r1) /\ IsLogin(r1) /\ Status(r1) = 200
    /\ Done(r2) /\ IsRegister(r2) /\ Status(r2) = 201
    /\ \E d \in store : d.email = rq[r1].body.email /\ d.password.digest # ""

\* the non-empty prefixes of a plaintext password
Prefixes(p) ==
  IF p = "pw1" THEN {"p", "pw", "pw1"}
  ELSE IF p = "secret1"
  THEN {"s", "se", "sec", "secr", "secre", "secret", "secret1"}
  ELSE {}

\* what bcrypt can have produced from the passwords a body carries
HashValues == {bcryptHash(p, salt) : p \in PasswordValues, salt \in Salts}

\* the fields of a response body that hold text
TextFields(b) ==
  {b[f] : f \in DOMAIN b \cap {"status", "message", "stage", "stack"}}
  \cup (IF "data" \in DOMAIN b
        THEN {b.data.user[f] : f \in DOMAIN b.data.user \ {"_id"}}
        ELSE {})

\* C12: for every Register and Login request, successful or failed, neither
\* the plaintext password nor a prefix of it is written to a log entry, stored
\* in the credential store or returned in the response.
C12_PlaintextNowhere ==
  \A r \in Slots :
    LET p == rq[r].body.password
    IN rq[r].pc # "idle"
       => /\ \A e \in rq[r].log :
               e.password \notin Prefixes(p) /\ e.firstChars \notin Prefixes(p)
          /\ \A d \in store : d.password \in HashValues
          /\ TextFields(rq[r].res.body) \cap Prefixes(p) = {}

(* ====================== properties of the middleware ================== *)
GateDone(r) == pr[r].pc = "done"
GateMessage(r) == pr[r].res.body.message

\* the header begins with the exact prefix "Bearer " and a token follows it
BearerToken(h) == h # NoHeader /\ h[1].str = "Bearer" /\ Len(h) >= 2 /\ h[2].str # ""

\* the token is a JWT signed with the server's secret that has not expired
\* at time t
ValidAt(word, t) ==
  /\ word.str = "eyJ"
  /\ ~Falsy(env.JWT_SECRET) /\ word.jwt.sig = env.JWT_SECRET
  /\ t < word.jwt.exp

\* some stored user has the id the token encodes
Resolves(word) == \E d \in store : ToHex(d._id) = word.jwt.id

\* C13: protect passes control to the downstream handler only if the request
\* carried a token with a valid signature that has not expired and whose
\* user id resolves to a stored user; whenever the downstream handler runs,
\* the request context holds exactly that user.
C13_ProtectPassesOnlyResolvedUser ==
  [][\A r \in Slots :
       /\ (pr[r].pc = "idle" /\ pr'[r].pc = "findById")
          => /\ Len(pr'[r].header) >= 2 /\ pr'[r].token = pr'[r].header[2]
             /\ ValidAt(pr'[r].token, now)
       /\ pr'[r].nextCalled
          => /\ pr[r].pc \in {"findById", "gate", "done"}
             /\ Resolves(pr'[r].token)
             /\ ToHex(pr'[r].user._id) = pr'[r].token.jwt.id
             /\ pr'[r].user \in store
       /\ (pr'[r].gated \/ pr'[r].handlerRan) => pr'[r].nextCalled]_vars

\* protect has passed the administrator's request on, with the administrator
\* in the request context
C13_Witness ==
  \E r \in Slots : pr[r].nextCalled /\ pr[r].user.role = "admin" /\ pr[r].pc = "gate"

\* C14: protect answers 401 'Not authorized to access this route' when no
\* bearer token is present, 401 'Token is invalid or has expired' when the
\* token fails verification, 401 'User no longer exists' when the token
\* verifies but its user is not in the store; each message is produced in
\* exactly that situation and no other.
C14_EachMessageInItsSituation ==
  \A r \in Slots :
    (GateDone(r) /\ ~pr[r].gated)
    => LET h == pr[r].header
           failsVerification == BearerToken(h) /\ pr[r].error \in
                                  {"jwt malformed", "invalid signature", "jwt expired",
                                   "secret or public key must be provided"}
           verifies == BearerToken(h) /\ pr[r].decoded = h[2].jwt.id /\ h[2].str = "eyJ"
       IN /\ pr[r].res.status = 401
          /\ GateMessage(r) = "Not authorized to access this route" <=> ~BearerToken(h)
          /\ GateMessage(r) = "Token is invalid or has expired" <=> failsVerification
          /\ GateMessage(r) = "User no longer exists" <=> (verifies /\ ~Resolves(h[2]))

\* the reasons for which a token fails verification
VerificationErrors == {"jwt malformed", "invalid signature", "jwt expired"}

\* C15: two requests to a protected route whose tokens fail verification for
\* different reasons (bad signature, malformed token, expired token) are
\* answered with the same status and the same body.
C15_FailuresIndistinguishable ==
  \A r1, r2 \in Slots :
    ( /\ GateDone(r1) /\ GateDone(r2)
      /\ pr[r1].error \in VerificationErrors /\ pr[r2].error \in VerificationErrors
      /\ pr[r1].error # pr[r2].error )
    => pr[r1].res = pr[r2].res

\* an expired token and a token with a forged signature have both been refused
C15_Witness ==
  \E r1, r2 \in Slots :
    /\ GateDone(r1) /\ pr[r1].error = "jwt expired"
    /\ GateDone(r2) /\ pr[r2].error = "invalid signature"

\* C16: protect takes a token only from an Authorization header that begins
\* with the exact prefix "Bearer "; for every other header value, one that
\* begins with "Bearer" followed by other characters before the first space
\* included, the token is treated as absent and the request is answered 401.
C16_ExactBearerPrefix ==
  \A r \in Slots :
    (pr[r].pc # "idle" /\ ~(pr[r].header # NoHeader /\ pr[r].header[1].str = "Bearer"
                            /\ Len(pr[r].header) >= 2))
    => /\ pr[r].token = UndefinedWord
       /\ GateDone(r)
       /\ pr[r].res = jsonError(401, "Not authorized to access this route")
       /\ ~pr[r].nextCalled

\* C17: for every allow-list and every resolved identity, restrictTo answers
\* 403 and does not invoke the downstream handler if and only if the
\* identity's role is not in the allow-list; otherwise it invokes the handler
\* and sends no response itself.
C17_GateByAllowList ==
  \A r \in Slots :
    pr[r].gated
    => IF pr[r].user.role \notin pr[r].roles
       THEN pr[r].res.status = 403 /\ ~pr[r].handlerRan
       ELSE pr[r].res = NoRes /\ pr[r].handlerRan

\* a user has been refused by a gate for administrators while the
\* administrator has been let through it
C17_Witness ==
  \E r1, r2 \in Slots :
    /\ pr[r1].gated /\ pr[r1].roles = {"admin"} /\ pr[r1].user.role = "user"
    /\ pr[r1].res.status = 403
    /\ pr[r2].gated /\ pr[r2].roles = {"admin"} /\ pr[r2].user.role = "admin"
    /\ pr[r2].handlerRan

(* ======================== properties of the browser =================== *)
\* C18: when the client's login or register receives a successful response,
\* the cached token and the cached user are both replaced by the values of
\* that response and the authenticated flag becomes true, whatever the
\* session state was before.
C18_SuccessReplacesSession ==
  [][\A c \in Calls, body \in ResponseBodies :
       (ClientFulfil(c, body) /\ ~Falsy(body.token))
       => /\ ls'.token = body.token
          /\ getCurrentUser(ls') = body.data.user
          /\ ctx'.isAuthenticated
          /\ ctx'.user = body.data.user]_vars

\* a login has succeeded for the administrator over Jane's session
C18_Witness ==
  /\ \E c \in Calls : calls[c].pc = "resolved" /\ calls[c].kind = "login"
  /\ ls = [token |-> "t2", user |-> "{admin}"]
  /\ ctx = [user |-> "admin", isAuthenticated |-> TRUE]

\* C19: when the client's login or register fails, the cached token, the
\* cached user, the context user and the authenticated flag keep the values
\* they had before the call, and the error is re-raised to the caller.
C19_FailureLeavesSession ==
  [][\A c \in Calls :
       /\ (calls[c].pc = "idle" /\ calls'[c].pc = "pending") => (ls' = ls /\ ctx' = ctx)
       /\ \A error \in AxiosErrors :
            ClientReject(c, error)
            => /\ ls' = ls /\ ctx' = ctx
               /\ calls'[c].pc = "rejected" /\ calls'[c].error = error]_vars

\* a register has failed while a session was open, and the session is open still
C19_Witness ==
  /\ \E c \in Calls : calls[c].pc = "rejected" /\ calls[c].kind = "register"
                      /\ calls[c].error = "Network Error"
  /\ ls.token = "t1" /\ ctx.isAuthenticated

\* C20: from any session state, logout removes both the cached token and the
\* cached user, sets the context user to absent and the authenticated flag
\* to false, and sends no request to the server.
C20_LogoutClearsLocally ==
  [][ClientLogout
     => /\ ls'.token = Null /\ ls'.user = Null
        /\ ctx'.user = Null /\ ~ctx'.isAuthenticated
        /\ calls' = calls]_vars

\* the session is closed on both sides while a login is still in flight
C20_Witness ==
  /\ ls = EmptyStorage /\ ~ctx.isAuthenticated /\ ctx.user = Null
  /\ \E c \in Calls : calls[c].pc = "pending"
  /\ \E c \in Calls : calls[c].pc = "resolved"

\* C21: in every state reached by login, register and logout calls,
\* successful or failed, the token entry of localStorage is present if and
\* only if the user entry is present.
C21_TokenAndUserTogether ==
  (ls.token # Null) <=> (ls.user # Null)

\* after a logout, a register has filled both entries again while a login
\* has failed
C21_Witness ==
  /\ ls.token = "t1" /\ ls.user = "{jane}"
  /\ \E c \in Calls : calls[c].pc = "resolved" /\ calls[c].kind = "register"
  /\ \E c \in Calls : calls[c].pc = "rejected" /\ calls[c].kind = "login"

\* C22: at every navigation to a protected view the guard renders the view
\* only if the authenticated flag is true at that moment and otherwise
\* redirects to the login view; after logout every attempt to reach a
\* protected view is redirected to login until a later login or register
\* succeeds.
C22_GuardAtEveryNavigation ==
  [][/\ \A path \in ProtectedPaths :
          Navigate(path)
          => nav'.shown = (IF ctx.isAuthenticated THEN path ELSE "/login")
     /\ nav'.shown \in ProtectedPaths => ctx'.isAuthenticated
     /\ (~ctx.isAuthenticated /\ ctx'.isAuthenticated)
        => \E c \in Calls, body \in ResponseBodies : ClientFulfil(c, body)]_vars

\* after a logout the dashboard was asked for and the login view is shown
C22_Witness ==
  /\ nav = [requested |-> "/dashboard", shown |-> "/login"]
  /\ ~ctx.isAuthenticated /\ ls = EmptyStorage
  /\ \E c \in Calls : calls[c].pc = "resolved"

\* some login or register request is in flight
InFlight == \E c \in Calls : calls[c].pc = "pending"

\* C23: the mutators of the client session never overlap: while a login or
\* register request is in flight no other mutator takes effect, so the
\* session after all requests have settled is the result of the mutator
\* invoked most recently; a logout invoked while a login is pending is not
\* overridden by that login's later success.
C23_MutatorsNeverOverlap ==
  /\ Cardinality({c \in Calls : calls[c].pc = "pending"}) <= 1
  /\ (~InFlight /\ last.op = "logout")
     => ls = EmptyStorage /\ ctx = [user |-> Null, isAuthenticated |-> FALSE]

(* ======================== properties of the router ==================== *)
\* C24: a request under /api/auth whose method and path match no route is
\* answered with the NotFound error, status 404, after the router's
\* catch-all and the error translation.
C24_UnmatchedIsNotFound ==
  \A r \in Slots :
    (Done(r) /\ rq[r].route \in UnmatchedTargets)
    => /\ rq[r].err.errorCode = "NOT_FOUND"
       /\ Status(r) = 404

\* C25: if the store fails during the lookup or the create of a Register or
\* Login request, the request is still answered, with status 500, and no
\* token is issued; no Register or Login request is left without a response.
C25_StoreFailureAnswered ==
  /\ [](\A r \in ClockSlots :
          (Done(r) /\ rq[r].faulted) => (Status(r) = 500 /\ ~HasToken(r)))
  /\ \A r \in ClockSlots : (rq[r].pc \in {"findOne", "create", "compare"}) ~> Done(r)

\* a Register whose lookup succeeded and whose create failed has been answered
C25_Witness ==
  \E r \in ClockSlots :
    /\ Done(r) /\ IsRegister(r) /\ rq[r].faulted /\ rq[r].reads = 1
    /\ rq[r].err.details.originalError = "store" /\ Status(r) = 500

C27_RegisterAllOrNothing ==
  [][\A r \in ClockSlots :
       (IsRegister(r) \/ rq[r].pc = "idle") /\ rq[r].pc # "done"
       /\ rq'[r].pc = "done" /\ rq'[r].route = "register"
       /\ rq'[r].res.status \in {400, 409, 500}
       => /\ store' = store
          /\ ~Known(store', rq'[r].body.email) \/ rq'[r].knownAtArrival]_vars

\* C28: if the lookup inside protect fails for a request whose token is
\* valid and unexpired, protect answers 401 'Token is invalid or has
\* expired', not 500, and does not invoke the downstream handler.
C28_LookupFailureIsUnauthorized ==
  \A r \in Slots :
    (GateDone(r) /\ pr[r].faulted)
    => /\ pr[r].token.str = "eyJ" /\ pr[r].token.jwt.sig = env.JWT_SECRET
       /\ pr[r].decoded = pr[r].token.jwt.id
       /\ pr[r].res = [status |-> 401,
                       body |-> [status |-> "error",
                                 message |-> "Token is invalid or has expired"]]
       /\ ~pr[r].nextCalled /\ ~pr[r].handlerRan

\* the lookup has failed for the token of a stored user
C28_Witness ==
  \E r \in Slots :
    GateDone(r) /\ pr[r].faulted /\ Resolves(pr[r].token) /\ now < pr[r].token.jwt.exp

\* C29: GET /api/auth/me is answered 200 with status 'success' for every
\* request, whether it carries no Authorization header, an invalid token or
\* a valid one: protect is not on the path of any route of the auth router.
C29_MeIsPublic ==
  \A r \in ClockSlots :
    (Done(r) /\ rq[r].route = "me")
    => /\ Status(r) = 200 /\ rq[r].res.body.status = "success"
       /\ rq[r].user = NoDoc

\* the profile route has answered a request that carried no header
C29_Witness ==
  \E r \in ClockSlots :
    Done(r) /\ rq[r].route = "me" /\ rq[r].authorization = NoHeader /\ Status(r) = 200

\* C30: whenever no client mutator is in flight, the authenticated flag of
\* the context is true if and only if a token entry is in localStorage, and
\* the context user is the parsed user entry; at initialisation and after
\* every completed login, register and logout, for every server response,
\* a success response without a token included.
C30_ContextMirrorsStorage ==
  ~InFlight
  => /\ ctx.isAuthenticated <=> (ls.token # Null)
     /\ ctx.user = getCurrentUser(ls)

====
